---- MODULE Spec2Model ----
(***************************************************************************)
(* Model of the UTS log aggregator: the SQLite-backed DedupStore           *)
(* (src/src/dedup_store.py), the batching Consumer (src/src/consumer.py)   *)
(* and the asyncio queue between them.                                     *)
(*                                                                         *)
(* The database is modelled at the level SQLite gives the program: one     *)
(* table processed_events with UNIQUE(topic, event_id), one shared         *)
(* connection whose open transaction is visible to every user of that      *)
(* connection, COMMIT making the connection's view durable and ROLLBACK    *)
(* throwing the uncommitted part away.                                     *)
(***************************************************************************)
EXTENDS Integers, Sequences, FiniteSets, TLC

(* ------------------------------ bounds -------------------------------- *)
MaxStores == 3
MaxReads == 2
MaxCalls == 3
MaxRestarts == 1
MaxClock == 1
MaxLimit == 2
NCallers == 2
MaxThreadStores == 2
MaxKills == 1
MaxPublish == 2
QueueMaxSize == 1
BatchSize == 2
MaxTasks == 2
MaxBatch == 2
MaxRequests == 2

(* ------------------------------ inputs -------------------------------- *)
Topics == {"t1", "t2"}
EventIds == {"e1", "e2"}
\* timestamp, source and payload of an event; the two contents differ in all
\* three fields
Contents == { [timestamp |-> "2024-01-01T00:00:00Z", source |-> "svc-a", payload |-> "p1"],
              [timestamp |-> "2024-06-30T12:00:00Z", source |-> "svc-b", payload |-> "p2"] }

\* models.Event: the five fields of a validated event
Event == { [topic |-> t, event_id |-> i, timestamp |-> c.timestamp,
            source |-> c.source, payload |-> c.payload] :
           t \in Topics, i \in EventIds, c \in Contents }

NoEvent == [topic |-> "", event_id |-> "", timestamp |-> "", source |-> "", payload |-> ""]

\* the (topic, event_id) pair of an event or of a row
DedupKey(e) == <<e.topic, e.event_id>>

Keys == Topics \X EventIds

\* Event.get_dedup_key: f"{self.topic}:{self.event_id}"
get_dedup_key(e) == e.topic \o ":" \o e.event_id

\* the threads that call store_event on the one DedupStore
Callers == 1..NCallers

\* json.dumps(event.payload) and json.loads(row['payload'])
JsonDumps(p) == <<"json", p>>
JsonLoads(s) == s[2]

\* exceptions sqlite3 raises when the storage layer fails (disk I/O error,
\* database is locked, database or disk is full)
StorageErrors == {"OperationalError"}

\* the tasks start() may create and the coroutines that call stop()
Tasks == 1..MaxTasks
Stoppers == {"A", "B"}

\* values of QUEUE_MAX_SIZE: int(os.getenv(...)) takes any integer, and
\* asyncio.Queue treats a maxsize of 0 or less as "no limit"
MaxSizes == {0, QueueMaxSize}

\* where a statement of an operation may fail
Faults == {"none", "execute", "commit"}

(* ------------------------------- state -------------------------------- *)
VARIABLES
    disk,            \* rows of processed_events that are committed (durable)
    diskSeq,         \* committed AUTOINCREMENT counter (sqlite_sequence)
    tbl,             \* rows as seen through self._conn (committed + open transaction)
    tblSeq,          \* AUTOINCREMENT counter as seen through self._conn
    conn,            \* self._conn is not None
    received_count,  \* DedupStore.received_count
    unique_count,    \* DedupStore.unique_count
    duplicate_count, \* DedupStore.duplicate_count
    topics,          \* DedupStore.topics
    clock,           \* datetime.utcnow()
    last,            \* history: the last completed call and what it returned
    results,         \* history: per key, the values store_event returned, in order
    insertedEpoch,   \* history: per key, the instance under which store_event returned True
    epoch,           \* history: number of DedupStore instances opened on the location
    nStores,         \* history: number of store_event calls made
    nReads,          \* history: number of read calls made
    pc,              \* per thread inside store_event: "idle", "insert" or "commit"
    cur,             \* per thread inside store_event: the event it is storing
    overlap,         \* history: keys on which store_event calls have run concurrently
    queue,           \* Consumer.queue: the asyncio.Queue of events
    running,         \* Consumer.running
    maxsize,         \* the maxsize the asyncio.Queue was created with
    blocked,         \* events whose "await queue.put" waits for a free slot
    task,            \* Consumer._task: the task created last (0: None)
    loops,           \* per created task: where _consume_loop stands and the part
                     \* of the batch _process_batch has not processed yet
    stats,           \* Consumer.stats
    stopping,        \* per caller of stop(): the task it awaits (0: not in stop)
    stopMark,        \* history: per caller of stop(), the events put on the queue and
                     \* the queue length when its call found the consumer running
    enqueued,        \* history: the keys of the events put on the queue
    nEnqueued,       \* history: number of events put on the queue
    nErrors,         \* history: number of events whose processing raised
    processed,       \* history: the keys of the events the consumer has processed
    request          \* the publish request of several events being handled or
                     \* handled last: its items, the item whose put waits, the
                     \* events it has queued and the answer it got

storeVars == <<disk, diskSeq, tbl, tblSeq, conn, received_count, unique_count,
               duplicate_count, topics>>
histVars == <<last, results, insertedEpoch, epoch, nStores, nReads>>
threadVars == <<pc, cur, overlap>>
requestVars == <<request>>
consumerVars == <<queue, maxsize, blocked, running, task, loops, stats, stopping,
                  stopMark, enqueued, nEnqueued, nErrors, processed>>
vars == <<storeVars, clock, histVars, threadVars, consumerVars, requestVars>>

(* --------------------------- the SQL statements ------------------------ *)

\* UNIQUE(topic, event_id): row r blocks the insert of row n
UniqueConflictMissing(r, n) == FALSE
UniqueConflictOnEventId(r, n) == r.event_id = n.event_id
UniqueConflictWithPayload(r, n) ==
    r.topic = n.topic /\ r.event_id = n.event_id /\ r.payload = n.payload
UniqueConflictOnDedupKey(r, n) == get_dedup_key(r) = get_dedup_key(n)
UniqueConflict(r, n) == r.topic = n.topic /\ r.event_id = n.event_id

\* datetime.isoformat() + 'Z' of the clock reading t, a number of microseconds
\* after a full second, as the codes of its characters after the seconds:
\* isoformat() leaves out the fraction when the microsecond is 0, and writes
\* "." and six digits otherwise
IsoFormatZ(t) ==
    (IF t = 0 THEN <<>>
     ELSE <<46>> \o [i \in 1..6 |-> 48 + ((t \div (10 ^ (6 - i))) % 10)]) \o <<90>>

\* the clock reading of a formatted processed_at
FromIsoFormatZ(s) == CHOOSE t \in 0..MaxClock : IsoFormatZ(t) = s

\* the order of two TEXT values under SQLite's BINARY collation (memcmp, the
\* shorter of two values that agree being the smaller)
TextLeq(a, b) ==
    \/ a = b
    \/ \E k \in 1..Len(b) :
         /\ k - 1 <= Len(a)
         /\ \A i \in 1..(k - 1) : a[i] = b[i]
         /\ (k > Len(a) \/ a[k] < b[k])

\* the row store_event binds to the INSERT
NewRow(e, seq, processed_at) ==
    [id |-> seq + 1, topic |-> e.topic, event_id |-> e.event_id,
     timestamp |-> e.timestamp, source |-> e.source,
     payload |-> JsonDumps(e.payload), processed_at |-> processed_at]

\* what OR IGNORE does with a conflicting row: the table is left as it is
OnConflictReplace(t, n) == {r \in t : ~UniqueConflict(r, n)} \cup
                           {[n EXCEPT !.id = r.id] : r \in {x \in t : UniqueConflict(x, n)}}
OnConflict(t, n) == t

\* INSERT OR IGNORE INTO processed_events ... : the new view of the table, the
\* new AUTOINCREMENT counter and cursor.rowcount
InsertIntoEmptiedTable(t, seq, e, processed_at) ==
    [tbl |-> {NewRow(e, seq, processed_at)}, seq |-> seq + 1, rowcount |-> 1]
InsertOrIgnore(t, seq, e, processed_at) ==
    LET n == NewRow(e, seq, processed_at) IN
    IF \E r \in t : UniqueConflict(r, n)
    THEN [tbl |-> OnConflict(t, n), seq |-> seq, rowcount |-> 0]
    ELSE [tbl |-> t \cup {n}, seq |-> seq + 1, rowcount |-> 1]

\* SELECT EXISTS(SELECT 1 ... WHERE topic = ? AND event_id = ?)
SelectExistsOnEventId(t, e) == \E r \in t : r.event_id = e.event_id
SelectExists(t, e) == \E r \in t : r.topic = e.topic /\ r.event_id = e.event_id

\* "if cursor.rowcount > 0"
RowInsertedAlways(rowcount) == rowcount >= 0
RowInserted(rowcount) == rowcount > 0

\* "except sqlite3.IntegrityError": the exceptions store_event turns into False
HandledAnySqliteError(kind) == kind \in {"IntegrityError", "OperationalError"}
Handled(kind) == kind = "IntegrityError"

\* CREATE TABLE IF NOT EXISTS processed_events: an existing table is kept
CreateTableDropFirst(t) == {}
CreateTableIfNotExists(t) == t

KeysOf(t) == {DedupKey(r) : r \in t}

(* ------------------------- the connection ----------------------------- *)

\* conn.commit(): the connection's view becomes the durable content
Commit ==
    /\ disk' = tbl
    /\ diskSeq' = tblSeq

\* self._conn.rollback() in _get_connection: the open transaction is dropped
Rollback ==
    /\ tbl' = disk
    /\ tblSeq' = diskSeq
    /\ UNCHANGED <<disk, diskSeq>>

(* ----------------------------- history -------------------------------- *)
\* no publish request of several events has been made
NoRequest == [items |-> <<>>, at |-> 0, queued |-> <<>>, dups |-> 0, status |-> "none",
              queued_count |-> 0]

NoStats == [received |-> 0, unique_processed |-> 0, duplicate_dropped |-> 0, topics |-> {}]

Call(op, e, ret, fault, rows, st) ==
    [op |-> op, ev |-> e, ret |-> ret, fault |-> fault, pre |-> tbl,
     rows |-> rows, stats |-> st]

Returned(e, ret) ==
    IF ret = "raise"
    THEN UNCHANGED <<results, insertedEpoch>>
    ELSE /\ results' = [results EXCEPT ![DedupKey(e)] = Append(@, ret)]
         /\ insertedEpoch' = [insertedEpoch EXCEPT ![DedupKey(e)] =
                                 IF ret = "True" /\ @ = 0 THEN epoch ELSE @]

(* --------------------------- DedupStore ------------------------------- *)

Min(a, b) == IF a < b THEN a ELSE b

\* datetime.utcnow(): the time of the last reading or a later one
UtcNow == clock..Min(clock + 1, MaxClock)

\* DedupStore.store_event run as one call: the effect on the store of storing e
\* when the statement named by fault raises kind, and the value returned
\* ("raise": the exception leaves store_event)
StoreEventCall(e, now, fault, kind, ret) ==
    LET ins == InsertOrIgnore(tbl, tblSeq, e, IsoFormatZ(now)) IN
    /\ received_count' = received_count + 1
    /\ topics' = topics \cup {e.topic}
    /\ conn' = TRUE
    /\ fault = "commit" => RowInserted(ins.rowcount)
    /\ IF fault = "execute" \/ fault = "commit"
       THEN \* the exception passes _get_connection, which rolls back
            /\ Rollback
            /\ unique_count' = unique_count
            /\ IF Handled(kind)
               THEN duplicate_count' = duplicate_count + 1 /\ ret = "False"
               ELSE duplicate_count' = duplicate_count /\ ret = "raise"
       ELSE IF RowInserted(ins.rowcount)
       THEN /\ tbl' = ins.tbl
            /\ tblSeq' = ins.seq
            /\ disk' = tbl'           \* conn.commit()
            /\ diskSeq' = tblSeq'
            /\ unique_count' = unique_count + 1
            /\ duplicate_count' = duplicate_count
            /\ ret = "True"
       ELSE /\ tbl' = ins.tbl
            /\ tblSeq' = ins.seq
            /\ UNCHANGED <<disk, diskSeq>>
            /\ unique_count' = unique_count
            /\ duplicate_count' = duplicate_count + 1
            /\ ret = "False"

store_event(e) ==
    /\ nStores < MaxStores
    /\ \E now \in UtcNow, fault \in Faults, kind \in StorageErrors,
          ret \in {"True", "False", "raise"} :
         /\ StoreEventCall(e, now, fault, kind, ret)
         /\ clock' = now
         /\ last' = Call("store_event", e, ret, fault, <<>>, NoStats)
         /\ Returned(e, ret)
    /\ nStores' = nStores + 1
    /\ UNCHANGED <<epoch, nReads>>
    /\ UNCHANGED <<threadVars, consumerVars, requestVars>>

\* DedupStore.is_duplicate
is_duplicate(e) ==
    /\ nReads < MaxReads
    /\ \E fault \in {"none", "execute"} :
         /\ IF fault = "execute"
            THEN /\ Rollback
                 /\ duplicate_count' = duplicate_count
                 /\ last' = Call("is_duplicate", e, "raise", fault, <<>>, NoStats)
            ELSE /\ UNCHANGED <<disk, diskSeq, tbl, tblSeq>>
                 /\ IF SelectExists(tbl, e)
                    THEN /\ duplicate_count' = duplicate_count + 1
                         /\ last' = Call("is_duplicate", e, "True", fault, <<>>, NoStats)
                    ELSE /\ duplicate_count' = duplicate_count
                         /\ last' = Call("is_duplicate", e, "False", fault, <<>>, NoStats)
    /\ conn' = TRUE
    /\ nReads' = nReads + 1
    /\ UNCHANGED <<received_count, unique_count, topics, clock, results,
                   insertedEpoch, epoch, nStores>>
    /\ UNCHANGED <<threadVars, consumerVars, requestVars>>

\* the rows a SELECT ... WHERE topic = ? reads ("if topic:" is false for None and "")
Filtered(t, topic) == IF topic = "" THEN t ELSE {r \in t : r.topic = topic}

\* SELECT ... ORDER BY processed_at DESC LIMIT ?: the row sequences the
\* statement may return (rows with equal processed_at come in any order)
SelectOrdered(t, limit) ==
    LET n == Min(limit, Cardinality(t)) IN
    { s \in [1..n -> t] :
        /\ \A i, j \in 1..n :
              i < j => s[i] # s[j] /\ TextLeq(s[j].processed_at, s[i].processed_at)
        /\ \A r \in t : (\A i \in 1..n : s[i] # r) =>
                        \A i \in 1..n : TextLeq(r.processed_at, s[i].processed_at) }

\* ProcessedEvent(...) built from a row
ProcessedEvent(r) ==
    [topic |-> r.topic, event_id |-> r.event_id, timestamp |-> r.timestamp,
     source |-> r.source, payload |-> JsonLoads(r.payload), processed_at |-> r.processed_at]

\* DedupStore.get_events
get_events(topic, limit) ==
    /\ nReads < MaxReads
    /\ \E fault \in {"none", "execute"} :
         /\ IF fault = "execute"
            THEN /\ Rollback
                 /\ last' = Call("get_events", NoEvent, "raise", fault, <<>>, NoStats)
            ELSE /\ UNCHANGED <<disk, diskSeq, tbl, tblSeq>>
                 /\ \E s \in SelectOrdered(Filtered(tbl, topic), limit) :
                      last' = Call("get_events", NoEvent, "ok", fault,
                                   [i \in 1..Len(s) |-> ProcessedEvent(s[i])], NoStats)
    /\ conn' = TRUE
    /\ nReads' = nReads + 1
    /\ UNCHANGED <<received_count, unique_count, duplicate_count, topics, clock,
                   results, insertedEpoch, epoch, nStores>>
    /\ UNCHANGED <<threadVars, consumerVars, requestVars>>

\* the dictionary get_stats returns: SELECT COUNT(*) and SELECT DISTINCT topic
\* over the table, and the two counters of the instance
GetStatsFromCounters ==
    [received |-> received_count, unique_processed |-> unique_count,
     duplicate_dropped |-> duplicate_count, topics |-> topics]
GetStatsResult ==
    [received |-> received_count, unique_processed |-> Cardinality(tbl),
     duplicate_dropped |-> duplicate_count, topics |-> {r.topic : r \in tbl}]

\* DedupStore.get_stats
get_stats ==
    /\ nReads < MaxReads
    /\ \E fault \in {"none", "execute"} :
         /\ IF fault = "execute"
            THEN /\ Rollback
                 /\ last' = Call("get_stats", NoEvent, "raise", fault, <<>>, NoStats)
            ELSE /\ UNCHANGED <<disk, diskSeq, tbl, tblSeq>>
                 /\ last' = Call("get_stats", NoEvent, "ok", fault, <<>>, GetStatsResult)
    /\ conn' = TRUE
    /\ nReads' = nReads + 1
    /\ UNCHANGED <<received_count, unique_count, duplicate_count, topics, clock,
                   results, insertedEpoch, epoch, nStores>>
    /\ UNCHANGED <<threadVars, consumerVars, requestVars>>

\* DedupStore.clear_all: DELETE FROM processed_events and commit (the
\* AUTOINCREMENT counter is kept)
clear_all ==
    /\ \E fault \in {"none", "execute"} :
         /\ IF fault = "execute"
            THEN Rollback
            ELSE /\ tbl' = {}
                 /\ tblSeq' = tblSeq
                 /\ disk' = tbl'           \* conn.commit()
                 /\ diskSeq' = tblSeq'
         /\ last' = Call("clear_all", NoEvent, IF fault = "none" THEN "ok" ELSE "raise",
                         fault, <<>>, NoStats)
    /\ conn' = TRUE
    /\ UNCHANGED <<received_count, unique_count, duplicate_count, topics, clock,
                   results, insertedEpoch, epoch, nStores, nReads>>
    /\ UNCHANGED <<threadVars, consumerVars, requestVars>>

\* DedupStore.close: the connection is closed, what it had not committed is lost
close ==
    /\ conn
    /\ conn' = FALSE
    /\ Rollback
    /\ last' = Call("close", NoEvent, "ok", "none", <<>>, NoStats)
    /\ UNCHANGED <<received_count, unique_count, duplicate_count, topics, clock,
                   results, insertedEpoch, epoch, nStores, nReads>>
    /\ UNCHANGED <<threadVars, consumerVars, requestVars>>

\* DedupStore.__init__ and _init_db: a new instance on the same db_path, once the
\* instance before it has released the file
Open ==
    /\ ~conn
    /\ epoch < MaxRestarts + 1
    /\ received_count' = 0
    /\ unique_count' = 0
    /\ duplicate_count' = 0
    /\ topics' = {}
    /\ conn' = TRUE
    /\ tbl' = CreateTableIfNotExists(disk)
    /\ tblSeq' = diskSeq
    /\ disk' = tbl'                  \* conn.commit()
    /\ diskSeq' = tblSeq'
    /\ epoch' = epoch + 1
    /\ last' = Call("open", NoEvent, "ok", "none", <<>>, NoStats)
    /\ UNCHANGED <<clock, results, insertedEpoch, nStores, nReads>>
    /\ UNCHANGED <<threadVars, consumerVars, requestVars>>

(* ------------------- the store used by one caller --------------------- *)

\* DedupStore(db_path) on a new location, and a Consumer on a new
\* asyncio.Queue(maxsize=m)
InitWith(m) ==
    /\ disk = {}
    /\ diskSeq = 0
    /\ tbl = {}
    /\ tblSeq = 0
    /\ conn = TRUE
    /\ received_count = 0
    /\ unique_count = 0
    /\ duplicate_count = 0
    /\ topics = {}
    /\ clock = 0
    /\ last = [op |-> "open", ev |-> NoEvent, ret |-> "ok", fault |-> "none",
               pre |-> {}, rows |-> <<>>, stats |-> NoStats]
    /\ results = [k \in Keys |-> <<>>]
    /\ insertedEpoch = [k \in Keys |-> 0]
    /\ epoch = 1
    /\ nStores = 0
    /\ nReads = 0
    /\ pc = [c \in Callers |-> "idle"]
    /\ cur = [c \in Callers |-> [ev |-> NoEvent, at |-> 0]]
    /\ overlap = {}
    /\ queue = <<>>
    /\ maxsize = m
    /\ blocked = <<>>
    /\ running = FALSE
    /\ task = 0
    /\ loops = [i \in Tasks |-> [pc |-> "none", batch |-> <<>>]]
    /\ stats = [received |-> 0, unique_processed |-> 0, duplicate_dropped |-> 0]
    /\ stopping = [s \in Stoppers |-> 0]
    /\ stopMark = [s \in Stoppers |-> [n |-> 0, q |-> 0]]
    /\ enqueued = {}
    /\ nEnqueued = 0
    /\ nErrors = 0
    /\ processed = {}
    /\ request = NoRequest

Init == InitWith(QueueMaxSize)

\* one caller driving the write path of the store, closing it and opening new
\* instances on the same location
Next ==
    \/ \E e \in Event : store_event(e)
    \/ close
    \/ Open

Spec == Init /\ [][Next]_vars

(* ---------------- the whole interface used by one caller --------------- *)

\* the events is_duplicate is asked about: one per key
Probes == {e \in Event : e.payload = "p1"}

\* the topic filters and the limits get_events is called with ("": no filter;
\* the /events endpoint takes limits from 1 to 1000)
TopicFilters == Topics \cup {""}
Limits == {1, MaxLimit}

ApiBudget == nStores + nReads < MaxCalls

\* the events submitted to the store: both contents of the two keys of one
\* topic, and one event of the other topic
ApiEvents == {e \in Event : e.topic = "t1" \/ (e.event_id = "e1" /\ e.payload = "p1")}

NextApi ==
    \/ \E e \in ApiEvents : ApiBudget /\ store_event(e)
    \/ \E e \in Probes : ApiBudget /\ is_duplicate(e)
    \/ \E topic \in TopicFilters, limit \in Limits :
          ApiBudget /\ get_events(topic, limit)
    \/ ApiBudget /\ get_stats
    \/ close
    \/ Open

SpecApi == Init /\ [][NextApi]_vars

(* ------------- topics and event ids that contain the ":" -------------- *)

\* topic and event_id are any strings of 1 to 255 characters, the ":" of
\* get_dedup_key included: two pairs with the key "a:b:c" and one without
SeparatorPairs == { <<"a:b", "c">>, <<"a", "b:c">>, <<"a", "c">> }

SeparatorEvents ==
    { [topic |-> k[1], event_id |-> k[2], timestamp |-> c.timestamp,
       source |-> c.source, payload |-> c.payload] :
      k \in SeparatorPairs, c \in {x \in Contents : x.payload = "p1"} }

NextKeys ==
    \/ \E e \in SeparatorEvents : store_event(e)
    \/ \E e \in SeparatorEvents : is_duplicate(e)

SpecKeys == Init /\ [][NextKeys]_vars

(* ------------------ the consumer and its event queue ------------------ *)
(* The consumer tasks and the request handlers are coroutines of one event *)
(* loop: a coroutine runs only while every other one is suspended.         *)
(* _process_batch has no suspension point, so a consumer task is suspended *)
(* only before its first step, in asyncio.sleep and after it has finished. *)

\* no consumer task is running: other coroutines may run
Suspended == \A i \in Tasks : loops[i].pc \in {"none", "ready", "sleep", "done", "failed"}

\* the consume loops that have been started and have not finished
Alive == {i \in Tasks : loops[i].pc \notin {"none", "done", "failed"}}

\* asyncio.Queue.full(): never full when maxsize <= 0
QueueFullNever(q) == FALSE
QueueFullAbove(q) == maxsize > 0 /\ Len(q) > maxsize
QueueFull(q) == maxsize > 0 /\ Len(q) >= maxsize

\* the first n elements of q, as queue.get_nowait() hands them out
TakeAll(q, n) == q
Take(q, n) == SubSeq(q, 1, Min(n, Len(q)))
Drop(q, n) == SubSeq(q, Min(n, Len(q)) + 1, Len(q))

\* queue.put_nowait(e), once put has found a free slot
Put(e) ==
    /\ queue' = Append(queue, e)
    /\ nEnqueued' = nEnqueued + 1
    /\ enqueued' = enqueued \cup {DedupKey(e)}

\* api.publish_event for one event: the duplicate check, then "await queue.put",
\* which waits while the queue is full
publish_event(e) ==
    /\ Suspended
    /\ nReads < MaxPublish
    /\ \E fault \in {"none", "execute"} :
         IF fault = "execute"
         THEN \* is_duplicate raises: 500, nothing queued
              /\ Rollback
              /\ duplicate_count' = duplicate_count
              /\ last' = Call("publish", e, "500", fault, <<>>, NoStats)
              /\ UNCHANGED <<queue, blocked, nEnqueued, enqueued>>
         ELSE /\ UNCHANGED <<disk, diskSeq, tbl, tblSeq>>
              /\ IF SelectExists(tbl, e)
                 THEN \* 409: the event is not queued
                      /\ duplicate_count' = duplicate_count + 1
                      /\ last' = Call("publish", e, "409", fault, <<>>, NoStats)
                      /\ UNCHANGED <<queue, blocked, nEnqueued, enqueued>>
                 ELSE /\ duplicate_count' = duplicate_count
                      /\ IF QueueFull(queue)
                         THEN /\ blocked' = Append(blocked, e)
                              /\ last' = Call("publish", e, "waiting", fault, <<>>, NoStats)
                              /\ UNCHANGED <<queue, nEnqueued, enqueued>>
                         ELSE /\ Put(e)
                              /\ last' = Call("publish", e, "queued", fault, <<>>, NoStats)
                              /\ UNCHANGED blocked
    /\ conn' = TRUE
    /\ nReads' = nReads + 1
    /\ UNCHANGED <<received_count, unique_count, topics, clock, results,
                   insertedEpoch, epoch, nStores>>
    /\ UNCHANGED <<maxsize, running, task, loops, stats, stopping, stopMark, nErrors, processed>>
    /\ UNCHANGED <<threadVars, requestVars>>

\* "await queue.put" of a waiting publish_event: a slot has become free
put_resume ==
    /\ Suspended
    /\ blocked # <<>>
    /\ ~QueueFull(queue)
    /\ Put(Head(blocked))
    /\ blocked' = Tail(blocked)
    /\ last' = Call("publish", Head(blocked), "queued after waiting", "none", <<>>, NoStats)
    /\ UNCHANGED <<maxsize, running, task, loops, stats, stopping, stopMark, nErrors, processed>>
    /\ UNCHANGED <<storeVars, clock, results, insertedEpoch, epoch, nStores, nReads>>
    /\ UNCHANGED <<threadVars, requestVars>>

\* Consumer.start: "if self.running"
AlreadyRunningNever == FALSE
AlreadyRunning == running

\* Consumer.start
start ==
    /\ Suspended
    /\ IF AlreadyRunning
       THEN \* logged, nothing else
            /\ last' = Call("start", NoEvent, "noop", "none", <<>>, NoStats)
            /\ UNCHANGED <<running, task, loops>>
       ELSE /\ task < MaxTasks
            /\ running' = TRUE
            \* asyncio.create_task(self._consume_loop())
            /\ task' = task + 1
            /\ loops' = [loops EXCEPT ![task + 1] = [pc |-> "ready", batch |-> <<>>]]
            /\ last' = Call("start", NoEvent, "started", "none", <<>>, NoStats)
    /\ UNCHANGED <<queue, maxsize, blocked, stats, stopping, stopMark, enqueued,
                   nEnqueued, nErrors, processed>>
    /\ UNCHANGED <<storeVars, clock, results, insertedEpoch, epoch, nStores, nReads>>
    /\ UNCHANGED <<threadVars, requestVars>>

\* Consumer.stop up to "await self._task"
stop(s) ==
    /\ Suspended
    /\ stopping[s] = 0
    /\ IF ~running
       THEN \* "if not self.running: return"
            /\ last' = Call("stop", NoEvent, "returned", "none", <<>>, NoStats)
            /\ UNCHANGED <<running, stopping, stopMark>>
       ELSE /\ running' = FALSE
            /\ stopping' = [stopping EXCEPT ![s] = task]
            /\ stopMark' = [stopMark EXCEPT ![s] = [n |-> nEnqueued, q |-> Len(queue)]]
            /\ last' = Call("stop", NoEvent, "awaiting", "none", <<>>, NoStats)
    /\ UNCHANGED <<queue, maxsize, blocked, task, loops, stats, enqueued,
                   nEnqueued, nErrors, processed>>
    /\ UNCHANGED <<storeVars, clock, results, insertedEpoch, epoch, nStores, nReads>>
    /\ UNCHANGED <<threadVars, requestVars>>

\* Consumer.stop: "await self._task" returns once the awaited task has finished
stop_return(s) ==
    /\ Suspended
    /\ stopping[s] # 0
    /\ loops[stopping[s]].pc \in {"done", "failed"}
    /\ stopping' = [stopping EXCEPT ![s] = 0]
    /\ stopMark' = [stopMark EXCEPT ![s] = [n |-> 0, q |-> 0]]
    \* awaiting a task that ended with an exception raises that exception
    /\ last' = Call("stop", NoEvent,
                    IF loops[stopping[s]].pc = "failed" THEN "raise" ELSE "returned",
                    "none", <<>>, NoStats)
    /\ UNCHANGED <<queue, maxsize, blocked, running, task, loops, stats,
                   enqueued, nEnqueued, nErrors, processed>>
    /\ UNCHANGED <<storeVars, clock, results, insertedEpoch, epoch, nStores, nReads>>
    /\ UNCHANGED <<threadVars, requestVars>>

\* Consumer._consume_loop: "while self.running or not self.queue.empty()"
LoopContinuesWhileRunning == running
LoopContinues == running \/ queue # <<>>

\* Consumer._consume_loop of task i: "await asyncio.sleep(self.sleep_interval)"
\* is over and the event loop resumes the task
wake(i) ==
    /\ Suspended
    /\ loops[i].pc = "sleep"
    /\ loops' = [loops EXCEPT ![i].pc = "loop"]
    /\ UNCHANGED <<queue, maxsize, blocked, running, task, stats, stopping, stopMark,
                   enqueued, nEnqueued, nErrors, processed>>
    /\ UNCHANGED <<storeVars, clock, histVars, threadVars, requestVars>>

\* Consumer._consume_loop of task i: the while test and the collection of one
\* batch
consume_loop(i) ==
    /\ loops[i].pc \in {"ready", "loop"}
    /\ \A j \in Tasks \ {i} : loops[j].pc \notin {"batch", "loop"}
    /\ IF LoopContinues
       THEN LET b == Take(queue, BatchSize) IN
            /\ queue' = Drop(queue, BatchSize)
            /\ loops' = [loops EXCEPT ![i] =
                            [pc |-> IF b # <<>> THEN "batch" ELSE "sleep", batch |-> b]]
       ELSE /\ loops' = [loops EXCEPT ![i] = [pc |-> "done", batch |-> <<>>]]
            /\ UNCHANGED queue
    /\ UNCHANGED <<maxsize, blocked, running, task, stats, stopping, stopMark,
                   enqueued, nEnqueued, nErrors, processed>>
    /\ UNCHANGED <<storeVars, clock, histVars, threadVars, requestVars>>

\* Consumer._process_batch, "except Exception" around the handling of each
\* event: an exception of store_event never leaves _process_batch, and so
\* never ends the task
TaskRaisesOnError(ret) == ret = "raise"
TaskRaises(ret) == FALSE

\* Consumer._process_batch: the events left to process after one whose
\* store_event returned ret ("except Exception" is inside the for loop)
RemainingAbortOnError(b, ret) == IF ret = "raise" THEN <<>> ELSE Tail(b)
Remaining(b, ret) == Tail(b)

\* Consumer._process_batch of task i: one turn of its for loop
\* the counters of the consumer after one event of a batch: received is
\* incremented before store_event is called, one of the two others after it
\* has answered
CountedWhenNew(st, ret) ==
    [st EXCEPT !.received = IF ret = "True" THEN @ + 1 ELSE @,
               !.unique_processed = IF ret = "True" THEN @ + 1 ELSE @,
               !.duplicate_dropped = IF ret = "False" THEN @ + 1 ELSE @]
Counted(st, ret) ==
    [st EXCEPT !.received = @ + 1,
               !.unique_processed = IF ret = "True" THEN @ + 1 ELSE @,
               !.duplicate_dropped = IF ret = "False" THEN @ + 1 ELSE @]

process_batch(i) ==
    /\ loops[i].pc = "batch"
    /\ LET e == Head(loops[i].batch) IN
       \E now \in UtcNow, fault \in Faults, kind \in StorageErrors,
          ret \in {"True", "False", "raise"} :
         /\ StoreEventCall(e, now, fault, kind, ret)
         /\ clock' = now
         /\ last' = Call("store_event", e, ret, fault, <<>>, NoStats)
         /\ Returned(e, ret)
         /\ stats' = Counted(stats, ret)
         \* except Exception: the error is logged and the loop goes on
         /\ nErrors' = IF ret = "raise" THEN nErrors + 1 ELSE nErrors
         /\ processed' = processed \cup {DedupKey(e)}
         /\ LET rest == Remaining(loops[i].batch, ret) IN
            loops' = [loops EXCEPT ![i] =
                         IF TaskRaises(ret)
                         THEN [pc |-> "failed", batch |-> <<>>]
                         ELSE [pc |-> IF rest = <<>> THEN "loop" ELSE "batch",
                               batch |-> rest]]
    /\ nStores' = nStores + 1
    /\ UNCHANGED <<epoch, nReads>>
    /\ UNCHANGED <<queue, maxsize, blocked, running, task, stopping, stopMark,
                   enqueued, nEnqueued>>
    /\ UNCHANGED <<threadVars, requestVars>>

\* Consumer.get_stats
ConsumerGetStats == stats

\* the events producers publish: two keys of one topic, each with two contents
Published == {e \in Event : e.topic = "t1"}

\* producers, one consumer started and stopped by one caller
NextConsumer ==
    \/ \E e \in Published : publish_event(e)
    \/ put_resume
    \/ start
    \/ stop("A")
    \/ stop_return("A")
    \/ \E i \in Tasks : wake(i)
    \/ \E i \in Tasks : consume_loop(i)
    \/ \E i \in Tasks : process_batch(i)

InitConsumer == \E m \in MaxSizes : InitWith(m)

SpecConsumer == InitConsumer /\ [][NextConsumer]_vars

\* the events published while start() and stop() are called by several
\* coroutines: one per key
Submitted == {e \in Published : e.payload = "p1"}

NextLifecycle ==
    \/ \E e \in Submitted : publish_event(e)
    \/ put_resume
    \/ start
    \/ \E s \in Stoppers : stop(s)
    \/ \E s \in Stoppers : stop_return(s)
    \/ \E i \in Tasks : wake(i)
    \/ \E i \in Tasks : consume_loop(i)
    \/ \E i \in Tasks : process_batch(i)

SpecLifecycle == Init /\ [][NextLifecycle]_vars

\* the event loop runs the coroutines that are ready in turn: a consume loop
\* that can take a step takes it, and a task whose sleep is over, a put that
\* has a free slot and a stop() whose awaited task has finished, which can all
\* run whenever the running task suspends, are not passed over for ever
Fairness ==
    /\ \A i \in Tasks : SF_vars(wake(i))
    /\ \A i \in Tasks : SF_vars(consume_loop(i))
    /\ \A i \in Tasks : WF_vars(process_batch(i))
    /\ \A s \in Stoppers : SF_vars(stop_return(s))
    /\ SF_vars(put_resume)

SpecLifecycleFair == SpecLifecycle /\ Fairness

(* ------------------ publish requests of several events ----------------- *)
(* api.publish_event for a request body that is a list of dictionaries (a  *)
(* single dictionary is handled as a list of one). The handler runs        *)
(* without suspension except in "await queue.put" on a full queue.         *)

\* datetime.fromisoformat(v.replace('Z', '+00:00')) accepts v
IsIso8601(v) == v \in {c.timestamp : c \in Contents}

\* Event(**ev): the field constraints and validate_timestamp
Validates(d) ==
    /\ d.topic # ""
    /\ d.event_id # ""
    /\ d.source # ""
    /\ IsIso8601(d.timestamp)

\* the dictionaries of a request: one event for each key of one topic, a
\* dictionary without event_id and one with a malformed timestamp
Offered == {e \in Event : e.topic = "t1" /\ e.payload = "p1"}
Malformed == { [topic |-> "t1", event_id |-> "", timestamp |-> "2024-01-01T00:00:00Z",
                source |-> "svc-a", payload |-> "p1"],
               [topic |-> "t1", event_id |-> "e1", timestamp |-> "not-a-valid-timestamp",
                source |-> "svc-a", payload |-> "p1"] }
Items == Offered \cup Malformed

\* the request bodies: lists of up to MaxBatch dictionaries, the empty list
\* included, with at most one malformed dictionary (the loop of publish_event
\* ends at the first one)
Requests ==
    {r \in UNION {[1..n -> Items] : n \in 0..MaxBatch} :
        Cardinality({j \in 1..Len(r) : r[j] \in Malformed}) <= 1}

\* the answer of publish_event after its loop: 409 when every item was found
\* stored, otherwise status "queued"
Answer(total, dups) == IF dups = total THEN "409" ELSE "queued"

\* "queued_count": len(event_objs), the events the request has put on the queue
QueuedCountOfBatch(queued, dups) == Len(queued) + dups
QueuedCount(queued, dups) == Len(queued)

\* the loop of publish_event from item i on, with q the queue, queued the
\* events the request has put on it and dups the items found stored: it ends
\* at the end of the list, at an item that fails validation (the exception
\* becomes a 500) or, for the time being, at a put that has to wait
RECURSIVE RunRequest(_, _, _, _, _)
RunRequest(items, i, q, queued, dups) ==
    IF i > Len(items)
    THEN [queue |-> q, at |-> 0, queued |-> queued, dups |-> dups,
          status |-> Answer(Len(items), dups)]
    ELSE IF ~Validates(items[i])
    THEN [queue |-> q, at |-> 0, queued |-> queued, dups |-> dups, status |-> "500"]
    ELSE IF SelectExists(tbl, items[i])
    THEN RunRequest(items, i + 1, q, queued, dups + 1)
    ELSE IF QueueFull(q)
    THEN [queue |-> q, at |-> i, queued |-> queued, dups |-> dups, status |-> "waiting"]
    ELSE RunRequest(items, i + 1, Append(q, items[i]), Append(queued, items[i]), dups)

\* the state after a part of the handler that ran up to r
RequestRan(items, r) ==
    /\ queue' = r.queue
    /\ nEnqueued' = nEnqueued + (Len(r.queue) - Len(queue))
    /\ enqueued' = enqueued \cup {DedupKey(r.queue[j]) : j \in (Len(queue) + 1)..Len(r.queue)}
    \* is_duplicate counts every item it finds stored
    /\ duplicate_count' = duplicate_count + (r.dups - request.dups)
    /\ request' = [items |-> items, at |-> r.at, queued |-> r.queued, dups |-> r.dups,
                   status |-> r.status,
                   queued_count |-> IF r.status = "queued"
                                    THEN QueuedCount(r.queued, r.dups) ELSE 0]
    /\ last' = Call("publish", NoEvent, r.status, "none", <<>>, NoStats)
    /\ conn' = TRUE
    /\ UNCHANGED <<disk, diskSeq, tbl, tblSeq, received_count, unique_count, topics>>
    /\ UNCHANGED <<clock, results, insertedEpoch, epoch, nStores>>
    /\ UNCHANGED <<maxsize, blocked, running, task, loops, stats, stopping, stopMark,
                   nErrors, processed>>
    /\ UNCHANGED threadVars

\* api.publish_event, from its start to its answer or to a put that waits
publish(items) ==
    /\ Suspended
    /\ request.status # "waiting"
    /\ nReads < MaxRequests
    /\ nReads' = nReads + 1
    /\ RequestRan(items, RunRequest(items, 1, queue, <<>>, 0))

\* api.publish_event, from the put that waited, which appends its event once
\* a slot is free, to the answer or to the next put that waits
publish_resume ==
    /\ Suspended
    /\ request.status = "waiting"
    /\ ~QueueFull(queue)
    /\ UNCHANGED nReads
    /\ LET e == request.items[request.at] IN
       RequestRan(request.items,
                  RunRequest(request.items, request.at + 1, Append(queue, e),
                             Append(request.queued, e), request.dups))

\* producers sending requests of several events to a running service
\* _process_batch while the storage answers every call
process_batch_served(i) == process_batch(i) /\ last'.fault = "none"

NextPublish ==
    \/ \E items \in Requests : publish(items)
    \/ publish_resume
    \/ start
    \/ \E i \in Tasks : wake(i)
    \/ \E i \in Tasks : consume_loop(i)
    \/ \E i \in Tasks : process_batch_served(i)

SpecPublish == InitConsumer /\ [][NextPublish]_vars

(* ------------- the store shared by threads of one process -------------- *)
(* store_event as the interpreter runs it: another thread may run between  *)
(* its statements. All threads use the one connection self._conn           *)
(* (check_same_thread=False), so they share its open transaction.          *)

\* a returned or raised call, kept per key
ReturnedAll(e, ret) ==
    /\ results' = [results EXCEPT ![DedupKey(e)] = Append(@, ret)]
    /\ insertedEpoch' = [insertedEpoch EXCEPT ![DedupKey(e)] =
                            IF ret = "True" /\ @ = 0 THEN epoch ELSE @]

InFlight(k) == {c \in Callers : pc[c] # "idle" /\ DedupKey(cur[c].ev) = k}

\* store_event, lines 145-147: processed_at, received_count, topics
se_begin(c, e) ==
    /\ pc[c] = "idle"
    /\ nStores < MaxThreadStores
    /\ \E now \in UtcNow :
         /\ clock' = now
         /\ cur' = [cur EXCEPT ![c] = [ev |-> e, at |-> now]]
    /\ pc' = [pc EXCEPT ![c] = "insert"]
    /\ received_count' = received_count + 1
    /\ topics' = topics \cup {e.topic}
    /\ overlap' = IF InFlight(DedupKey(e)) # {} THEN overlap \cup {DedupKey(e)} ELSE overlap
    /\ nStores' = nStores + 1
    /\ UNCHANGED <<disk, diskSeq, tbl, tblSeq, conn, unique_count, duplicate_count,
                   last, results, insertedEpoch, epoch, nReads, consumerVars, requestVars>>

\* store_event, lines 149-166 and 173-181: the INSERT OR IGNORE, and the return
\* of False when no row was inserted
se_execute(c) ==
    /\ pc[c] = "insert"
    /\ conn' = TRUE
    /\ \E fault \in {"none", "execute"}, kind \in StorageErrors, ret \in {"False", "raise", "pending"} :
         LET e == cur[c].ev
             ins == InsertOrIgnore(tbl, tblSeq, e, IsoFormatZ(cur[c].at)) IN
         /\ IF fault = "execute"
            THEN /\ Rollback
                 /\ IF Handled(kind)
                    THEN duplicate_count' = duplicate_count + 1 /\ ret = "False"
                    ELSE duplicate_count' = duplicate_count /\ ret = "raise"
            ELSE /\ tbl' = ins.tbl
                 /\ tblSeq' = ins.seq
                 /\ UNCHANGED <<disk, diskSeq>>
                 /\ IF RowInserted(ins.rowcount)
                    THEN duplicate_count' = duplicate_count /\ ret = "pending"
                    ELSE duplicate_count' = duplicate_count + 1 /\ ret = "False"
         /\ IF ret = "pending"
            THEN /\ pc' = [pc EXCEPT ![c] = "commit"]
                 /\ UNCHANGED <<last, results, insertedEpoch>>
            ELSE /\ pc' = [pc EXCEPT ![c] = "idle"]
                 /\ last' = Call("store_event", e, ret, fault, <<>>, NoStats)
                 /\ ReturnedAll(e, ret)
    /\ UNCHANGED <<received_count, unique_count, topics, clock, epoch, nStores, nReads,
                   cur, overlap, consumerVars, requestVars>>

\* store_event, lines 168-172: conn.commit() and the return of True
se_commit(c) ==
    /\ pc[c] = "commit"
    /\ \E fault \in {"none", "commit"}, kind \in StorageErrors, ret \in {"True", "False", "raise"} :
         LET e == cur[c].ev IN
         /\ IF fault = "commit"
            THEN /\ Rollback
                 /\ unique_count' = unique_count
                 /\ IF Handled(kind)
                    THEN duplicate_count' = duplicate_count + 1 /\ ret = "False"
                    ELSE duplicate_count' = duplicate_count /\ ret = "raise"
            ELSE /\ Commit
                 /\ UNCHANGED <<tbl, tblSeq>>
                 /\ unique_count' = unique_count + 1
                 /\ duplicate_count' = duplicate_count
                 /\ ret = "True"
         /\ last' = Call("store_event", e, ret, fault, <<>>, NoStats)
         /\ ReturnedAll(e, ret)
    /\ pc' = [pc EXCEPT ![c] = "idle"]
    /\ UNCHANGED <<conn, received_count, topics, clock, epoch, nStores, nReads,
                   cur, overlap, consumerVars, requestVars>>

\* the process is killed and started again: what the connection had not
\* committed is gone, the calls in progress never return, and a new DedupStore
\* is opened on the same db_path
Kill ==
    /\ epoch < MaxKills + 1
    /\ tbl' = CreateTableIfNotExists(disk)
    /\ tblSeq' = diskSeq
    /\ UNCHANGED <<disk, diskSeq>>
    /\ conn' = TRUE
    /\ received_count' = 0
    /\ unique_count' = 0
    /\ duplicate_count' = 0
    /\ topics' = {}
    /\ pc' = [c \in Callers |-> "idle"]
    /\ cur' = [c \in Callers |-> [ev |-> NoEvent, at |-> 0]]
    /\ overlap' = {}
    /\ epoch' = epoch + 1
    /\ last' = Call("kill", NoEvent, "ok", "none", <<>>, NoStats)
    /\ UNCHANGED <<clock, results, insertedEpoch, nStores, nReads, consumerVars, requestVars>>

NextThreads ==
    \/ \E c \in Callers, e \in Event : se_begin(c, e)
    \/ \E c \in Callers : se_execute(c)
    \/ \E c \in Callers : se_commit(c)
    \/ \E topic \in {""}, limit \in {MaxLimit} : get_events(topic, limit)
    \/ Kill

SpecThreads == Init /\ [][NextThreads]_vars

(* ============================== claims ================================= *)

StoreReturned == last.op = "store_event" /\ last.ret # "raise"
LastKey == DedupKey(last.ev)
\* the rows of table t that hold the key of the last call's event
LastRows(t) == {r \in t : DedupKey(r) = LastKey}

\* C1: in every state reached through store_event, is_duplicate, get_events,
\* get_stats, close and the opening of new instances, the persisted table (and
\* the connection's view of it) holds at most one row per (topic, event_id).
C1_OneRecordPerKey ==
    /\ \A r1, r2 \in disk : DedupKey(r1) = DedupKey(r2) => r1 = r2
    /\ \A r1, r2 \in tbl : DedupKey(r1) = DedupKey(r2) => r1 = r2

\* a duplicate of a stored key, with another payload, has been submitted to a
\* later instance while another key is stored too
C1_Witness ==
    /\ StoreReturned /\ last.ret = "False"
    /\ epoch >= 2
    /\ Cardinality(disk) >= 2
    /\ \E r \in disk : DedupKey(r) = LastKey /\ JsonLoads(r.payload) # last.ev.payload

\* C2: for every key, among the store_event calls that returned, the first one
\* returned True and every later one returned False: N successive calls give
\* exactly one True, on the first call, and N-1 False.
C2_Idempotence ==
    \A k \in Keys :
        \A i \in 1..Len(results[k]) : results[k][i] = (IF i = 1 THEN "True" ELSE "False")

\* three successive calls for one key have returned
C2_Witness == \E k \in Keys : Len(results[k]) >= 3

\* C4: store_event returns True whenever no row with exactly its (topic,
\* event_id) is stored, whatever rows with the same event_id under another
\* topic or the same topic with another event_id are stored.
C4_KeyIsolation ==
    (StoreReturned /\ LastRows(last.pre) = {}) => last.ret = "True"

\* an insert returned True while the same event_id under another topic and the
\* same topic with another event_id were both stored
C4_Witness ==
    /\ StoreReturned /\ last.ret = "True"
    /\ \E r \in last.pre : r.event_id = last.ev.event_id /\ r.topic # last.ev.topic
    /\ \E r \in last.pre : r.topic = last.ev.topic /\ r.event_id # last.ev.event_id

\* C5: store_event of an event whose (topic, event_id) is already stored
\* returns False whatever its timestamp, source and payload are.
C5_ContentIgnored ==
    (StoreReturned /\ LastRows(last.pre) # {}) => last.ret = "False"

\* a call returned False for an event that differs from the stored row in
\* timestamp, source and payload
C5_Witness ==
    /\ StoreReturned /\ last.ret = "False"
    /\ \E r \in last.pre :
         /\ DedupKey(r) = LastKey
         /\ r.timestamp # last.ev.timestamp
         /\ r.source # last.ev.source
         /\ JsonLoads(r.payload) # last.ev.payload

\* C6: a store_event call that returns False leaves the row of its key as the
\* first successful insert wrote it, in the connection's view and on disk.
C6_FirstWriteWins ==
    [][(nStores' = nStores + 1 /\ last'.ret = "False") =>
          /\ {r \in tbl' : DedupKey(r) = DedupKey(last'.ev)} =
             {r \in tbl : DedupKey(r) = DedupKey(last'.ev)}
          /\ {r \in disk' : DedupKey(r) = DedupKey(last'.ev)} =
             {r \in disk : DedupKey(r) = DedupKey(last'.ev)}]_vars

\* a call returned False at a later time and with other content than the row
\* that is stored for its key
C6_Witness ==
    /\ StoreReturned /\ last.ret = "False"
    /\ \E r \in disk :
         /\ DedupKey(r) = LastKey
         /\ FromIsoFormatZ(r.processed_at) < clock
         /\ r.timestamp # last.ev.timestamp
         /\ r.source # last.ev.source
         /\ JsonLoads(r.payload) # last.ev.payload

\* C3: when store_event calls for one key have run concurrently and all of
\* them are over, exactly one of them has returned True (the others returned
\* False) and the row is stored. Calls that raised are not among those that
\* returned.
C3_ExactlyOneWinner ==
    \A k \in overlap :
        (InFlight(k) = {} /\ \E i \in 1..Len(results[k]) : results[k][i] # "raise") =>
            /\ Cardinality({i \in 1..Len(results[k]) : results[k][i] = "True"}) = 1
            /\ k \in KeysOf(disk)

\* the keys store_event has answered True for
Inserted == {k \in Keys : insertedEpoch[k] > 0}

C8_KillKeepsInserted ==
    (last.op = "kill" /\ \A c \in Callers : pc[c] = "idle") =>
        /\ Inserted \subseteq KeysOf(tbl)
        /\ tbl = disk

\* C9: a store_event during which the INSERT or the COMMIT fails returns
\* neither True nor False: the exception leaves the call, and nothing of the
\* failed call is stored.
C9_FailurePropagates ==
    (last.op = "store_event" /\ last.fault # "none") =>
        /\ last.ret = "raise"
        /\ tbl = last.pre
        /\ disk = last.pre

\* the COMMIT of an insert of a new key failed
C9_Witness ==
    /\ last.op = "store_event" /\ last.fault = "commit"
    /\ LastRows(last.pre) = {}
    /\ last.pre # {}

\* no event on the queue and none taken from it and not yet processed
Drained == queue = <<>> /\ \A i \in Tasks : loops[i].batch = <<>>

\* C10: once the R events put on the queue have all been processed (queue
\* empty, no event in flight), the consumer's get_stats has
\* received = unique_processed + duplicate_dropped = R
C10_CounterIdentity ==
    Drained =>
        /\ ConsumerGetStats.received = nEnqueued
        /\ ConsumerGetStats.received =
              ConsumerGetStats.unique_processed + ConsumerGetStats.duplicate_dropped

\* C11: once the R events put on the queue, in any order and by any number of
\* producers, have all been processed over a store that started empty,
\* unique_processed is the number of distinct (topic, event_id) pairs among
\* them and duplicate_dropped is R minus that number.
C11_DistinctKeysCounted ==
    Drained =>
        /\ ConsumerGetStats.unique_processed = Cardinality(enqueued)
        /\ ConsumerGetStats.duplicate_dropped = nEnqueued - Cardinality(enqueued)

C13_StopReturnsAfterLoopExit ==
    (last.op = "stop" /\ last.ret = "returned") =>
        /\ Alive = {}
        /\ \A i \in Tasks : loops[i].batch = <<>>

\* C14: a stop() call that found the consumer running eventually returns (the
\* consume loop it awaits exits), the event loop being fair and the number of
\* events published being finite.
C14_StopTerminates ==
    \A s \in Stoppers : (stopping[s] # 0) ~> (stopping[s] = 0)

\* C15: a start() call made while the consumer is running changes nothing: no
\* consume loop is created, running, the task handle, the loops and the
\* counters stay as they are, and the call returns without an error.
C15_StartWhileRunningNoOp ==
    [][(running /\ last'.op = "start" /\ last' # last) =>
          /\ last'.ret = "noop"
          /\ UNCHANGED <<running, task, loops, stats>>
          /\ UNCHANGED <<queue, stopping, received_count, unique_count, duplicate_count>>]_vars

\* start() has been called on a running consumer whose loop has processed
\* events and is polling
C15_Witness ==
    /\ last.op = "start" /\ last.ret = "noop"
    /\ running
    /\ loops[task].pc = "sleep"
    /\ ConsumerGetStats.received >= 1

\* C16: in every reachable state, however start() and stop() calls interleave
\* with the consume loop, at most one consume loop is alive.
C16_SingleLoop == Cardinality(Alive) <= 1

\* the state of the consumer's lifecycle
Phase ==
    IF running THEN "Running"
    ELSE IF task = 0 THEN "Idle"
    ELSE IF loops[task].pc \notin {"done", "failed"} THEN "Draining"
    ELSE "Stopped"

\* C17: the lifecycle changes only by Idle -> Running, Running -> Draining and
\* Draining -> Stopped; a Draining or Stopped consumer never becomes Running.
C17_Lifecycle ==
    [][\/ Phase' = Phase
       \/ <<Phase, Phase'>> \in {<<"Idle", "Running">>, <<"Running", "Draining">>,
                                 <<"Draining", "Stopped">>}]_vars

OnlyRemoves ==
    \/ queue' = queue
    \/ \E n \in 1..Len(queue) : queue' = Drop(queue, n)

C20_ErrorsIsolated ==
    /\ [][(nStores' = nStores + 1 /\ last'.ret = "raise") =>
             \A i \in Tasks :
                loops[i].pc = "batch" =>
                   /\ loops'[i].batch = Tail(loops[i].batch)
                   /\ loops'[i].pc = IF loops'[i].batch = <<>> THEN "loop" ELSE "batch"]_vars
    /\ [](Suspended =>
             /\ ConsumerGetStats.received = nEnqueued - Len(queue)
             /\ nStores = nEnqueued - Len(queue))

\* store_event has just raised for an event of a batch that has more events
C20_Witness ==
    /\ last.op = "store_event" /\ last.ret = "raise"
    /\ \E i \in Tasks : loops[i].pc = "batch" /\ Len(loops[i].batch) >= 1
    /\ nErrors = 1

\* C21: every event the consumer takes from the queue ends inserted or
\* rejected as a duplicate: each turn of _process_batch ends with store_event
\* having returned True, the event's key being stored durably, or having
\* returned False, a record with the event's key being stored already.
C21_CarriedToCompletion ==
    [][\A i \in Tasks :
          (loops[i].pc = "batch" /\ nStores' = nStores + 1) =>
              LET k == DedupKey(Head(loops[i].batch)) IN
              \/ last'.ret = "True" /\ k \in KeysOf(disk') /\ k \notin KeysOf(tbl)
              \/ last'.ret = "False" /\ k \in KeysOf(tbl) /\ tbl' = tbl]_vars

\* C22: in every reachable state of a DedupStore, whatever store_event and
\* is_duplicate calls have been made (those of the publish path included),
\* received_count >= unique_count + duplicate_count.
C22_ReceivedCoversOutcomes == received_count >= unique_count + duplicate_count

\* C23: an is_duplicate(E) call that returns gives True exactly when a record
\* with E's (topic, event_id) is stored at the time of the call, also when the
\* record was written by an earlier instance on the same location, and False
\* otherwise.
C23_IsDuplicateExact ==
    (last.op = "is_duplicate" /\ last.ret # "raise") =>
        /\ last.ret \in {"True", "False"}
        /\ last.ret = "True" <=> LastKey \in KeysOf(last.pre)
        /\ last.pre = disk

\* is_duplicate has answered True on a later instance for a key inserted by
\* the first one
C23_Witness ==
    /\ last.op = "is_duplicate" /\ last.ret = "True"
    /\ epoch >= 2
    /\ insertedEpoch[LastKey] = 1

\* C24: is_duplicate is a read-only query: a call leaves the stored records
\* and every value get_stats reports (received, unique_processed,
\* duplicate_dropped, topics) as they were.
C24_IsDuplicateReadOnly ==
    [][(last'.op = "is_duplicate" /\ nReads' = nReads + 1) =>
          /\ tbl' = tbl
          /\ disk' = disk
          /\ GetStatsResult' = GetStatsResult]_vars

\* C25: under publish and consumer operations the stored records only grow: a
\* record once stored stays stored, as it is, in every later state, durably
\* and in the connection's view, and no step of the consumer or of the publish
\* path is a clear_all.
C25_AppendOnly ==
    [][/\ disk \subseteq disk'
       /\ tbl \subseteq tbl'
       /\ KeysOf(disk) \subseteq KeysOf(disk')
       /\ ~clear_all]_vars

\* the duplicate check of a publish request for a stored key has failed and
\* the connection has been rolled back
C25_Witness ==
    /\ last.op = "publish" /\ last.ret = "500"
    /\ LastKey \in KeysOf(disk)
    /\ ConsumerGetStats.unique_processed >= 1

\* C26: a get_events(topic, limit) call that returns gives at most limit
\* records, each of them built from a stored record (of exactly the given
\* topic when a topic filter is given), no record of the result having been
\* processed later than a record before it: newest processed_at first.
C26_GetEventsOrderedAndBounded ==
    [][\A topic \in TopicFilters, limit \in Limits :
          (get_events(topic, limit) /\ last'.ret = "ok") =>
              LET rows == last'.rows IN
              /\ Len(rows) <= limit
              /\ \A i \in 1..Len(rows) :
                    /\ \E r \in disk : rows[i] = ProcessedEvent(r)
                    /\ topic # "" => rows[i].topic = topic
              /\ \A i, j \in 1..Len(rows) :
                    i < j => FromIsoFormatZ(rows[i].processed_at) >=
                             FromIsoFormatZ(rows[j].processed_at)]_vars

\* C27: a get_stats call that returns reports as unique_processed the number
\* of stored records, one per key store_event has answered True for, and as
\* topics the set of the topics of the stored records, after any inserts and
\* duplicates and also on an instance opened later over the stored data.
C27_StatsCountStoredRecords ==
    (last.op = "get_stats" /\ last.ret = "ok") =>
        /\ last.stats.unique_processed = Cardinality(disk)
        /\ last.stats.unique_processed = Cardinality(Inserted)
        /\ last.stats.topics = {r.topic : r \in disk}
        /\ last.stats.topics = {k[1] : k \in Inserted}

\* get_stats has been called on a second instance, opened over a record for
\* which the first instance had also seen a duplicate
C27_Witness ==
    /\ last.op = "get_stats" /\ last.ret = "ok"
    /\ epoch >= 2
    /\ last.stats.unique_processed >= 1
    /\ \E k \in Keys : insertedEpoch[k] = 1 /\ Len(results[k]) >= 2

\* C28: once every submitted event has been processed (no publish request
\* waiting, nothing on the queue or in a batch), also when no processing has
\* raised, what the store's get_stats reports satisfies
\* unique_processed = received - duplicate_dropped.
C28_StoreStatsIdentity ==
    (Drained /\ blocked = <<>> /\ nErrors = 0) =>
        GetStatsResult.unique_processed =
            GetStatsResult.received - GetStatsResult.duplicate_dropped

\* C29: once stop() has been called (the consumer is draining or stopped and
\* has not been started again) no event is added to the queue, and once the
\* consumer is stopped no event is left on the queue.
C29_DrainStopsIntake ==
    /\ [][(Phase \in {"Draining", "Stopped"}) => (nEnqueued' = nEnqueued)]_vars
    /\ [](Phase = "Stopped" => queue = <<>>)

\* C30: with a consumer that has been started and a fair event loop, every
\* event whose enqueue has completed is eventually taken from the queue and
\* handed to store_event: for each n, once n events have been put on the
\* queue, eventually n events have left it and n store_event calls have been
\* made.
C30_EventuallyDrained ==
    \A n \in 1..MaxPublish :
        (task # 0 /\ nEnqueued >= n) ~> (nEnqueued - Len(queue) >= n /\ nStores >= n)

\* C31: when two submissions of one key that was not stored have both passed
\* the is_duplicate check of publish and have both been put on the queue, then
\* once both have been processed the store holds exactly one record for the
\* key and the consumer has counted one of them as unique and the other as
\* duplicate.
C31_InsertIsTheGate ==
    (Drained /\ blocked = <<>> /\ nEnqueued = 2 /\ Cardinality(enqueued) = 1) =>
        /\ \A k \in enqueued : Cardinality({r \in disk : DedupKey(r) = k}) = 1
        /\ ConsumerGetStats.unique_processed = 1
        /\ ConsumerGetStats.duplicate_dropped = 1

\* C32: a stop() call that awaited the consume loop returns without raising,
\* also when store_event raised for events processed before: no consume loop
\* ends with an exception, the errors do not keep the awaited loop from
\* finishing or stop() from returning once it has, and each failed event is
\* counted in received.
C32_StopDoesNotRaise ==
    /\ [][\A s \in Stoppers :
             (stopping[s] # 0 /\ stopping'[s] = 0) => last'.ret = "returned"]_vars
    /\ []((last.op = "stop" => last.ret # "raise") /\
          (\A i \in Tasks : loops[i].pc # "failed") /\
          (ConsumerGetStats.received >= nErrors))
    /\ [](\A s \in Stoppers :
             (stopping[s] # 0 /\ Suspended /\ loops[stopping[s]].pc = "done")
                 => ENABLED stop_return(s))

\* a stop() call is about to return after the processing of an event raised
\* during the drain it waited for
C32_Witness ==
    \E s \in Stoppers :
        /\ stopping[s] # 0
        /\ loops[stopping[s]].pc = "done"
        /\ nErrors >= 1
        /\ stopMark[s].q >= 1
        /\ last.op = "store_event" /\ last.ret = "raise"

\* the elements of a sequence
Range(s) == {s[j] : j \in 1..Len(s)}

\* what C33 says of a publish request of valid events that has just been
\* answered "queued" or 409
QueuedAsSubmitted ==
    LET n == Len(request'.items) IN
    \* none found stored: all n are queued, in order, and the answer says so
    /\ request'.dups = 0 =>
          /\ request'.status = "queued"
          /\ request'.queued_count = n
          /\ request'.queued = request'.items
    \* every item was either queued or found stored
    /\ Len(request'.queued) + request'.dups = n
    /\ request'.status = "queued" => request'.queued_count = Len(request'.queued)
    \* a request that never waited: its events are behind those queued before,
    \* and no item stored at the time is among them
    /\ request.status # "waiting" =>
          /\ queue' = queue \o request'.queued
          /\ nEnqueued' = nEnqueued + Len(request'.queued)
          /\ \A e \in Range(request'.items) :
                SelectExists(tbl, e) => e \notin Range(request'.queued)

C34_DedupKeyStringDecides ==
    /\ (last.op = "store_event" /\ last.fault = "none") =>
          (last.ret = "False" <=>
              \E r \in last.pre : get_dedup_key(r) = get_dedup_key(last.ev))
    /\ (last.op = "is_duplicate" /\ last.fault = "none") =>
          (last.ret = "True" <=>
              \E r \in last.pre : get_dedup_key(r) = get_dedup_key(last.ev))

\* C34: an event is taken for one already stored exactly when a stored record
\* has its topic and its event_id, whatever the other fields; records of the
\* same (topic, event_id) have the same dedup_key string, and two events of
\* different (topic, event_id) with the same dedup_key string are both stored.
C34_TopicAndEventIdDecide ==
    /\ (last.op = "store_event" /\ last.fault = "none") =>
          (last.ret = "False" <=>
              \E r \in last.pre : r.topic = last.ev.topic /\ r.event_id = last.ev.event_id)
    /\ (last.op = "is_duplicate" /\ last.fault = "none") =>
          (last.ret = "True" <=>
              \E r \in last.pre : r.topic = last.ev.topic /\ r.event_id = last.ev.event_id)
    /\ \A r, s \in tbl :
          /\ (r.topic = s.topic /\ r.event_id = s.event_id) => r = s
          /\ (r.topic = s.topic /\ r.event_id = s.event_id) =>
                get_dedup_key(r) = get_dedup_key(s)

\* store_event has stored an event whose dedup_key string a record of another
\* (topic, event_id) already had
C34_Witness ==
    /\ last.op = "store_event"
    /\ last.ret = "True"
    /\ \E r \in last.pre : get_dedup_key(r) = get_dedup_key(last.ev)
    /\ \E r, s \in disk : r # s /\ get_dedup_key(r) = get_dedup_key(s)

Pending ==
    LET busy == {i \in Tasks : loops[i].batch # <<>>} IN
    (IF busy = {} THEN <<>> ELSE loops[CHOOSE i \in busy : TRUE].batch) \o queue

\* C36: a batch is the first min(batch_size, queue length) events of the
\* queue, taken without waiting for more (it may be empty); the event applied
\* to the store is always the oldest one not yet applied, and every other
\* step only adds events behind those that wait.
C36_BatchesInQueueOrder ==
    /\ [][\A i \in Tasks : (consume_loop(i) /\ loops'[i].pc # "done") =>
            /\ Len(loops'[i].batch) = Min(BatchSize, Len(queue))
            /\ loops'[i].batch \o queue' = queue
            /\ Pending' = Pending]_vars
    /\ [][(\E i \in Tasks : process_batch(i)) =>
            /\ last'.ev = Head(Pending)
            /\ Pending' = Tail(Pending)]_vars
    /\ [][~(\E i \in Tasks : process_batch(i)) =>
            /\ Len(Pending') >= Len(Pending)
            /\ SubSeq(Pending', 1, Len(Pending)) = Pending]_vars
    /\ [](\A i \in Tasks :
            (loops[i].pc = "loop" /\ \A j \in Tasks \ {i} : loops[j].pc \notin {"batch", "loop"})
               => ENABLED consume_loop(i))

\* a batch of batch_size events has been taken from a longer queue and its
\* first event has been applied
C36_Witness ==
    /\ \E i \in Tasks : loops[i].pc = "batch" /\ Len(loops[i].batch) = BatchSize - 1
    /\ queue # <<>>
    /\ last.op = "store_event"
    /\ nStores = 1

\* the record table t holds for the key of event e has the timestamp, source
\* and payload of e
StoredAs(t, e) ==
    \A r \in t : DedupKey(r) = DedupKey(e) =>
        /\ r.timestamp = e.timestamp
        /\ r.source = e.source
        /\ JsonLoads(r.payload) = e.payload

\* C37: with the single consumer the record stored for a key is made from the
\* earliest-enqueued event of that key among the events the consumer has
\* processed: events are processed in the order of the queue, the event that
\* makes the record of a key is the first event of that key the consumer
\* processes, the record has the timestamp, source and payload of that event,
\* and it never changes afterwards.
C37_FirstEnqueuedIsStored ==
    /\ [][(\E i \in Tasks : process_batch(i)) =>
            /\ last'.ev = Head(Pending)
            /\ last'.ret = "True" =>
                  /\ LastKey' \notin processed
                  /\ LastKey' \in KeysOf(disk')
                  /\ StoredAs(disk', last'.ev)]_vars
    /\ [][\A r \in disk : DedupKey(r) \in KeysOf(disk') => r \in disk']_vars

\* C38: while get_events on a worker thread and store_event calls share the
\* connection, an operation that fails and rolls back leaves the insert another
\* store_event has executed and not yet committed, and a store_event that
\* returns True leaves the record of its event on disk.
C38_RollbackSparesOtherInserts ==
    /\ [][(last' # last /\ last'.ret = "raise") =>
            \A c \in Callers :
                (pc[c] = "commit" /\ pc'[c] = "commit") =>
                    DedupKey(cur[c].ev) \in KeysOf(tbl')]_vars
    /\ [][(last' # last /\ last'.op = "store_event" /\ last'.ret = "True") =>
            DedupKey(last'.ev) \in KeysOf(disk')]_vars

\* C39: a publish request is answered 409 exactly when it holds at least one
\* event and every event of it was found stored; a request of which at least
\* one event was put on the queue is answered "queued".
C39_ConflictIffAllStored ==
    [][(request' # request /\ request'.status # "waiting") =>
         LET n == Len(request'.items) IN
         /\ request'.status = "409" <=> (n >= 1 /\ request'.dups = n)
         /\ (request.status # "waiting" /\ request'.status \in {"409", "queued"}) =>
               request'.dups = Cardinality({j \in 1..n : SelectExists(tbl, request'.items[j])})
         /\ Len(request'.queued) >= 1 => request'.status = "queued"]_vars

\* C40: a publish request that is rejected because one of its items fails
\* validation has put none of its events on the queue: the queue is as it was
\* before the request.
C40_RejectedRequestQueuesNothing ==
    [][(request' # request /\ request'.status = "500") =>
         /\ request'.queued = <<>>
         /\ request.status # "waiting" => (queue' = queue /\ nEnqueued' = nEnqueued)]_vars

====
